---- MODULE Spec2Model ----
(***************************************************************************)
(* collect_into_rc_slice: building Rc<[T]>, Arc<[T]>, Rc<str> and Arc<str> *)
(* from an iterator in one heap allocation.                                *)
(*                                                                         *)
(* One behaviour is one call of collect_into_{rc,arc}_{slice,str}.  The    *)
(* heap block is a function from byte offsets to byte values; the          *)
(* allocator is the environment: it may fail, and a realloc may resize in  *)
(* place or move the block.  usize has the width of the target, which is   *)
(* chosen per behaviour (2 or 4 bytes), so that every quantity stays       *)
(* inside the integers.                                                    *)
(***************************************************************************)
EXTENDS Integers, Sequences, FiniteSets

\* ------------------------------------------------------------- bounds
\* the iterator yields at most MaxItems items
MaxItems == 4
\* size_hint() reports bounds in 0..MaxHint
MaxHint == 2

\* ------------------------------------------------------------- inputs
\* mem::size_of::<usize>() of the targets modelled
UsizeBytes == {2, 4}
\* <<mem::size_of::<T>(), mem::align_of::<T>()>> of the element types collected
ElemTypes == {<<0, 1>>, <<1, 1>>, <<3, 1>>, <<8, 8>>, <<9, 1>>}
\* the element type the text front ends pass to data_offset: u8
U8 == <<1, 1>>
\* Unicode scalar values of encoded width 1, 2, 3 and 4: 'a', U+00E9, U+20AC, U+1F600
Chars == {97, 233, 8364, 128512}
Variants == {"rc_slice", "arc_slice", "rc_str", "arc_str"}
IsText(v) == v \in {"rc_str", "arc_str"}
\* how the items reach collect_into_rc_str: char, &char (IterRef..) or &mut char (IterRefMut..)
Adapters == {"value", "ref", "ref_mut"}

\* a byte whose value is not determined (uninitialised, or outside any live block)
Indet == 0 - 1
\* a value whose bytes are not the representation of any item
Corrupt == 0 - 2
\* what `item` holds once the iterator has returned None
EndOfIteration == 0 - 3
\* the null pointer
Null == 0

Min(a, b) == IF a < b THEN a ELSE b
Max(a, b) == IF a > b THEN a ELSE b

\* Option<usize>: None is <<>>, Some(u) is <<u>>
None == <<>>
Some(u) == <<u>>
unwrap_or(o, d) == IF o = None THEN d ELSE o[1]

\* ------------------------------------------------------------- layout
\* usize arithmetic wraps at 2^16 on the 2-byte target; on the 4-byte target no
\* quantity of the model comes near 2^16, so no wrap-around is ever taken there
WordModulus == 2 ^ 16

wrapping_add(a, b) == (a + b) % WordModulus
wrapping_sub(a, b) == (a - b + WordModulus) % WordModulus

RECURSIVE BitAnd(_, _)
\* a & b, bit by bit
BitAnd(a, b) ==
    IF a = 0 \/ b = 0 THEN 0
    ELSE 2 * BitAnd(a \div 2, b \div 2) + (a % 2) * (b % 2)

\* !a on a usize
BitNot(a) == WordModulus - 1 - a

\* AndNotMask as it would be with the mask built from align instead of align - 1
AndNotMaskOfAlign(x, align) == BitAnd(x, BitNot(align))

\* `.. & !align.wrapping_sub(1)`
AndNotMask(x, align) == BitAnd(x, BitNot(wrapping_sub(align, 1)))

padding_needed(l, al) ==
    LET padding == AndNotMask(wrapping_sub(wrapping_add(l, al), 1), al)
    IN  wrapping_sub(padding, l)

\* Layout::new::<RcBox<()>>() / Layout::new::<ArcInner<()>>(): two usize counters
HeaderSize(w) == 2 * w
HeaderAlign(w) == w

data_offset(w, t) == HeaderSize(w) + padding_needed(HeaderSize(w), t[2])

\* Layout::from_size_align(size, align).unwrap().pad_to_align().size()
PadToAlign(sz, al) == sz + padding_needed(sz, al)

\* ------------------------------------------------------------- bytes
\* byte k (little endian) of the non-negative value x
ByteOf(x, k) == IF k > 3 THEN 0 ELSE (x \div (256 ^ k)) % 256

\* the n bytes of x, as a function on 0..n-1
ToBytes(x, n) == [k \in 0 .. n - 1 |-> ByteOf(x, k)]

\* the byte at offset i of the heap image m (Indet outside what m records)
Cell(m, i) == IF i \in DOMAIN m THEN m[i] ELSE Indet

RECURSIVE SumBytes(_, _, _)
SumBytes(m, off, n) ==
    IF n = 0 THEN 0
    ELSE SumBytes(m, off, n - 1) + Cell(m, off + n - 1) * (256 ^ (n - 1))

\* the value read back from the n bytes at off
FromBytes(m, off, n) ==
    IF \E k \in 0 .. n - 1 : Cell(m, off + k) = Indet THEN Indet
    ELSE IF \E k \in 4 .. n - 1 : Cell(m, off + k) # 0 THEN Corrupt
    ELSE SumBytes(m, off, Min(n, 4))

Top(m) == Cardinality(DOMAIN m)

\* the image m after bs (a function on 0..k-1) was stored at off; bytes stored at
\* block_size or beyond lie outside the block: they stay only if stick
Store(m, off, bs, blk, stick) ==
    LET k == Cardinality(DOMAIN bs)
    IN  [i \in 0 .. Max(Top(m), off + k) - 1 |->
            IF i >= off /\ i < off + k
            THEN IF i < blk \/ stick THEN bs[i - off] ELSE Indet
            ELSE Cell(m, i)]

\* ------------------------------------------------------------- UTF-8
len_utf8(c) ==
    IF c < 128 THEN 1 ELSE IF c < 2048 THEN 2 ELSE IF c < 65536 THEN 3 ELSE 4

encode_utf8(c) ==
    IF c < 128 THEN [k \in 0 .. 0 |-> c]
    ELSE IF c < 2048 THEN
        [k \in 0 .. 1 |-> IF k = 0 THEN 192 + (c \div 64) ELSE 128 + (c % 64)]
    ELSE IF c < 65536 THEN
        [k \in 0 .. 2 |-> IF k = 0 THEN 224 + (c \div 4096)
                          ELSE IF k = 1 THEN 128 + ((c \div 64) % 64)
                          ELSE 128 + (c % 64)]
    ELSE
        [k \in 0 .. 3 |-> IF k = 0 THEN 240 + (c \div 262144)
                          ELSE IF k = 1 THEN 128 + ((c \div 4096) % 64)
                          ELSE IF k = 2 THEN 128 + ((c \div 64) % 64)
                          ELSE 128 + (c % 64)]

\* ------------------------------------------------------------- state
VARIABLES
    variant,      \* which of the four collect_into_* functions runs
    by,           \* how the items are handed over (text, Rc only: value / ref / ref_mut)
    w,            \* mem::size_of::<usize>() of the target
    T,            \* <<size, align>> of the element type (u8 for text)
    pc,           \* position inside the function
    size_hint,    \* <<lower_bound, upper_bound>> the iterator reported
    metadata, align, len, cap,   \* the locals of the same names
    alloc,        \* the local `alloc`: address of the block, Null if the allocator failed
    block_size,   \* bytes the allocator holds at alloc (size of the last alloc/realloc)
    heap,         \* byte image at alloc: offset -> byte
    item,         \* the item the loop body is working on
    produced,     \* the items the iterator has yielded so far
    calls,        \* the allocator calls made so far, in order
    oob,          \* TRUE once a byte was written at or beyond block_size
    handle        \* the Rc / Arc returned, <<>> before

vars == <<variant, by, w, T, pc, size_hint, metadata, align, len, cap, alloc,
          block_size, heap, item, produced, calls, oob, handle>>

params == <<variant, by, w, T>>

\* mem::size_of::<T>()
size == T[1]

\* the values an item of the element type can take (two per type, one for ())
ItemsOf(t) == IF t[1] = 0 THEN {0} ELSE IF t[1] = 1 THEN {1, 2} ELSE {1, 258}

\* the addresses alloc / realloc may return for a layout aligned to al
AllocAddrs(al) == {al, 2 * al}

\* `upper_bound.unwrap_or(lower_bound) * mem::size_of::<T>() + metadata`, and
\* `upper_bound.unwrap_or(lower_bound) + metadata` in the text front ends
InitialCap(v, hint, t, md) ==
    IF IsText(v) THEN unwrap_or(hint[2], hint[1]) + md
    ELSE unwrap_or(hint[2], hint[1]) * t[1] + md

\* InitImage as it would be with the implicit weak reference left out (weak_count: 0)
InitImageNoImplicitWeak(wd, n) ==
    [k \in 0 .. n - 1 |->
        IF k < wd THEN ByteOf(1, k)
        ELSE IF k < 2 * wd THEN 0
        ELSE Indet]

\* &RcBox { strong_count: 1, weak_count: 1, data: () } as *const u8 (for Arc:
\* ArcInner { strong: AtomicUsize::new(1), weak: AtomicUsize::new(1), .. }),
\* read for n bytes: the bytes after the two counters belong to no object
InitImage(wd, n) ==
    [k \in 0 .. n - 1 |->
        IF k < wd THEN ByteOf(1, k)
        ELSE IF k < 2 * wd THEN ByteOf(1, k - wd)
        ELSE Indet]

\* what a block holds after realloc(ptr, layout, new_size) succeeded: the first
\* min(layout.size(), new_size) bytes of the old block; in place, whatever lay
\* behind the old block is still there, after a move it is not
ReallocImage(m, blk, old_size, new_size, moved) ==
    [i \in 0 .. (IF moved THEN new_size ELSE Max(new_size, Top(m))) - 1 |->
        IF moved /\ (i >= Min(old_size, new_size) \/ i >= blk) THEN Indet
        ELSE Cell(m, i)]

Call(fn, al, old, new) == [fn |-> fn, align |-> al, old_size |-> old, new_size |-> new]

Init ==
    /\ variant \in Variants
    /\ by \in (IF variant = "rc_str" THEN Adapters ELSE {"value"})
    /\ w \in UsizeBytes
    /\ T \in (IF IsText(variant) THEN {U8} ELSE ElemTypes)
    /\ pc = "entry"
    /\ size_hint = <<0, None>>
    /\ metadata = 0 /\ align = 0 /\ len = 0 /\ cap = 0
    /\ alloc = Null
    /\ block_size = 0
    /\ heap = <<>>
    /\ item = 0
    /\ produced = <<>>
    /\ calls = <<>>
    /\ oob = FALSE
    /\ handle = <<>>

\* the bounds size_hint() may report: any lower bound, and no upper bound, an
\* upper bound of 0 or the largest one (the iterator need not honour either)
Hints == {<<lo, up>> : lo \in 0 .. MaxHint, up \in {None, Some(0), Some(MaxHint)}}

\* `usize` arithmetic leaves the word range. Only the 2-byte target is given
\* values that large; the quantities of the 4-byte target stay far below 2^32.
Overflows(wd, x) == wd = 2 /\ x >= WordModulus

\* isize::MAX of the 2-byte target
IsizeMax == WordModulus \div 2 - 1

\* Layout::from_size_align(sz, al) is Ok: sz rounded up to al does not exceed
\* isize::MAX
LayoutOk(wd, sz, al) == wd # 2 \/ sz <= IsizeMax - (al - 1)

\* lines 39-58: metadata, align, size_hint, len, cap, the first alloc, for a
\* size_hint() out of H. `hint * size + metadata` that leaves the word range
\* panics in a build with overflow checks and wraps around in one without;
\* `.unwrap()` of a refused layout panics.
OpenWith(H) ==
    /\ pc = "entry"
    /\ \E hint \in H, a \in AllocAddrs(HeaderAlign(w)) \cup {Null}, overflow_checks \in BOOLEAN :
        LET md == data_offset(w, T)
            al == HeaderAlign(w)
            exact == InitialCap(variant, hint, T, md)
            c  == IF Overflows(w, exact) THEN exact % WordModulus ELSE exact
            layout == PadToAlign(c, al)
        IN  /\ size_hint' = hint
            /\ metadata' = md
            /\ align' = al
            /\ len' = md
            /\ IF (Overflows(w, exact) /\ overflow_checks) \/ ~LayoutOk(w, c, al)
               THEN /\ pc' = "panic"
                    /\ UNCHANGED <<cap, alloc, calls, block_size, heap>>
               ELSE /\ cap' = c
                    /\ alloc' = a
                    /\ calls' = Append(calls, Call("alloc", al, 0, layout))
                    /\ IF a = Null
                       THEN /\ pc' = "abort"
                            /\ UNCHANGED <<block_size, heap>>
                       ELSE /\ pc' = "header"
                            /\ block_size' = layout
                            /\ heap' = [i \in 0 .. layout - 1 |-> Indet]
    /\ UNCHANGED <<params, item, produced, oob, handle>>

Open == OpenWith(Hints)

\* the count handed to ptr::copy_nonoverlapping: `metadata`, the payload offset
CopyCount == metadata

\* lines 62-70: ptr::copy_nonoverlapping(init, alloc, metadata)
WriteHeader ==
    /\ pc = "header"
    /\ \E stick \in (IF CopyCount > block_size THEN BOOLEAN ELSE {TRUE}) :
        heap' = Store(heap, 0, InitImage(w, CopyCount), block_size, stick)
    /\ oob' = (oob \/ CopyCount > block_size)
    /\ pc' = "loop"
    /\ UNCHANGED <<params, size_hint, metadata, align, len, cap, alloc, block_size,
                   item, produced, calls, handle>>

\* self.copied() and self.map(|c| *c): the char behind the reference
Deref(r) == r.target

\* the item the adapted iterator hands to the loop
Adapted(b, x) == IF b = "value" THEN x ELSE Deref([target |-> x])

\* line 72, `for item in self`: the iterator yields one more item
NextItem ==
    /\ pc = "loop"
    /\ Len(produced) < MaxItems
    /\ \E x \in (IF IsText(variant) THEN Chars ELSE ItemsOf(T)) :
        /\ item' = Adapted(by, x)
        /\ produced' = Append(produced, x)
    /\ pc' = "check"
    /\ UNCHANGED <<params, size_hint, metadata, align, len, cap, alloc, block_size,
                   heap, calls, oob, handle>>

\* line 72: the iterator returns None
Exhausted ==
    /\ pc = "loop"
    /\ item' = EndOfIteration
    /\ pc' = "trim"
    /\ UNCHANGED <<params, size_hint, metadata, align, len, cap, alloc, block_size,
                   heap, produced, calls, oob, handle>>

\* the iterator's next() panics: the unwinding leaves the function from inside the
\* `for`; no guard object owns the raw block, so no cleanup code runs
IterPanic ==
    /\ pc = "loop"
    /\ pc' = "unwound"
    /\ UNCHANGED <<params, size_hint, metadata, align, len, cap, alloc, block_size,
                   heap, item, produced, calls, oob, handle>>

\* WidthOf as it would be if the text loop advanced by the fixed element size
WidthOfElementSize(v, t, x) == t[1]

\* the bytes appended for item x: c.len_utf8() for text, mem::size_of::<T>() else
WidthOf(v, t, x) == IF IsText(v) THEN len_utf8(x) ELSE t[1]

\* the bytes the loop body appends for the current item
Width == WidthOf(variant, T, item)

\* GrownCap as it would be with a growth factor of one and a half
GrownCapByHalf(c) == c + c \div 2

\* `cap *= 2`
GrownCap(c) == c * 2

\* lines 73-85: `if len + size > cap { .. cap *= 2; realloc .. }`
Grow ==
    /\ pc = "check"
    /\ IF len + Width > cap
       THEN LET layout == PadToAlign(cap, align)
                c == GrownCap(cap)
            IN  /\ cap' = c
                /\ calls' = Append(calls, Call("realloc", align, layout, c))
                /\ \E a \in AllocAddrs(align) \cup {Null} :
                    /\ alloc' = a
                    /\ IF a = Null
                       THEN /\ pc' = "abort"
                            /\ UNCHANGED <<block_size, heap>>
                       ELSE /\ pc' = "write"
                            /\ block_size' = c
                            /\ heap' = ReallocImage(heap, block_size, layout, c, a # alloc)
       ELSE /\ pc' = "write"
            /\ UNCHANGED <<cap, calls, alloc, block_size, heap>>
    /\ UNCHANGED <<params, size_hint, metadata, align, len, item, produced, oob, handle>>

\* what is written for item x: its UTF-8 encoding, or its in-memory representation
BytesOf(v, t, x) == IF IsText(v) THEN encode_utf8(x) ELSE ToBytes(x, t[1])

\* the in-memory representation of the current item
ItemBytes == BytesOf(variant, T, item)

\* lines 87-90: ptr::write(alloc.add(len) as *mut T, item); len += size
\* (text: c.encode_utf8(slice::from_raw_parts_mut(alloc.add(len), c.len_utf8())))
\* NextIteration as it would be if the function left the loop after one item
NextIterationLeaves == "trim"

\* end of the `for` body: control returns to the loop head, which asks the
\* iterator again; only its None leaves the loop
NextIteration == "loop"

Write ==
    /\ pc = "write"
    /\ \E stick \in (IF len + Width > block_size THEN BOOLEAN ELSE {TRUE}) :
        heap' = Store(heap, len, ItemBytes, block_size, stick)
    /\ len' = len + Width
    /\ oob' = (oob \/ len + Width > block_size)
    /\ pc' = NextIteration
    /\ UNCHANGED <<params, size_hint, metadata, align, cap, alloc, block_size,
                   item, produced, calls, handle>>

\* the size the trim asks for: `len + padding_needed(len, align)`
TrimSize(l, al) == l + padding_needed(l, al)

\* lines 93-105: `if cap > len { realloc(alloc, layout, len + padding_needed(len, align)) }`
Trim ==
    /\ pc = "trim"
    /\ IF cap > len
       THEN LET layout == PadToAlign(cap, align)
                n == TrimSize(len, align)
            IN  /\ calls' = Append(calls, Call("realloc", align, layout, n))
                /\ \E a \in AllocAddrs(align) \cup {Null} :
                    /\ alloc' = a
                    /\ IF a = Null
                       THEN /\ pc' = "abort"
                            /\ UNCHANGED <<block_size, heap>>
                       ELSE /\ pc' = "from_raw"
                            /\ block_size' = n
                            /\ heap' = ReallocImage(heap, block_size, layout, n, a # alloc)
       ELSE /\ pc' = "from_raw"
            /\ UNCHANGED <<calls, alloc, block_size, heap>>
    /\ UNCHANGED <<params, size_hint, metadata, align, len, cap, item, produced, oob, handle>>

\* lines 107-114: ptr::slice_from_raw_parts(alloc.add(metadata), count); Rc::from_raw
\* `(len - metadata) / size` panics when size is 0
FromRaw ==
    /\ pc = "from_raw"
    /\ IF ~IsText(variant) /\ size = 0
       THEN /\ pc' = "panic"
            /\ UNCHANGED handle
       ELSE /\ pc' = "done"
            /\ handle' = [ptr |-> alloc + metadata,
                          count |-> IF IsText(variant) THEN len - metadata
                                    ELSE (len - metadata) \div size]
    /\ UNCHANGED <<params, size_hint, metadata, align, len, cap, alloc, block_size,
                   heap, item, produced, calls, oob>>

\* the handle goes out of scope (end of each test): the last strong reference is
\* dropped and Rc / Arc frees the block with the layout of RcBox<[T]> / ArcInner<[T]>
\* for `count` elements, whose alignment is the larger of the header's and T's
DropHandle ==
    /\ pc = "done"
    /\ LET al == Max(HeaderAlign(w), T[2])
       IN  calls' = Append(calls, Call("dealloc", al,
                        PadToAlign(data_offset(w, T) + handle.count * size, al), 0))
    /\ pc' = "dropped"
    /\ UNCHANGED <<params, size_hint, metadata, align, len, cap, alloc, block_size,
                   heap, item, produced, oob, handle>>

Next ==
    \/ Open
    \/ WriteHeader
    \/ NextItem
    \/ Exhausted
    \/ IterPanic
    \/ Grow
    \/ Write
    \/ Trim
    \/ FromRaw
    \/ DropHandle

Spec == Init /\ [][Next]_vars

\* every step above is a step of one sequential function: it is taken whenever it
\* can be
FairSpec == Spec /\ WF_vars(Next)

\* ------------------------------------------------------------- hints near usize::MAX
\* hints at the top of the word range of the 2-byte target: the largest usize
\* and the values just below it, down to below usize::MAX - metadata
LargeHintValues == {WordModulus - 1 - k : k \in 0 .. 2 * MaxHint + 1}
LargeHints == {<<0, Some(u)>> : u \in LargeHintValues} \cup {<<WordModulus - 1, None>>}

LargeInit == Init /\ w = 2

OpenLarge == OpenWith(LargeHints)

\* the same function, called on an iterator that reports one of LargeHints
LargeNext ==
    \/ OpenLarge
    \/ WriteHeader
    \/ NextItem
    \/ Exhausted
    \/ IterPanic
    \/ Grow
    \/ Write
    \/ Trim
    \/ FromRaw
    \/ DropHandle

SpecLarge == LargeInit /\ [][LargeNext]_vars

\* ------------------------------------------------------------- layout calculator alone
\* lengths tried: 0..MaxPadLen and the MaxPadLen + 1 largest usize values
MaxPadLen == 20
PadLens == (0 .. MaxPadLen) \cup {WordModulus - 1 - k : k \in 0 .. MaxPadLen}
\* every alignment a usize can hold: the powers of two
PadAligns == {2 ^ k : k \in 0 .. 15}
\* element types by alignment, up to 16
PadTypes == {<<a, a>> : a \in {1, 2, 4, 8, 16}}

\* a caller about to ask for padding_needed(len, align) or data_offset::<T>()
PadInit ==
    /\ variant = "rc_slice" /\ by = "value"
    /\ w \in UsizeBytes
    /\ T \in PadTypes
    /\ pc = "pad_entry"
    /\ size_hint = <<0, None>>
    /\ len \in PadLens
    /\ align \in PadAligns
    /\ metadata = 0 /\ cap = 0
    /\ alloc = Null
    /\ block_size = 0
    /\ heap = <<>>
    /\ item = 0
    /\ produced = <<>>
    /\ calls = <<>>
    /\ oob = FALSE
    /\ handle = <<>>

\* lib.rs 21-26: cap receives padding_needed(len, align)
CallPaddingNeeded ==
    /\ pc = "pad_entry"
    /\ cap' = padding_needed(len, align)
    /\ pc' = "pad_done"
    /\ UNCHANGED <<params, size_hint, metadata, align, len, alloc, block_size, heap,
                   item, produced, calls, oob, handle>>

\* lib.rs 16-19: metadata receives data_offset::<T>()
CallDataOffset ==
    /\ pc = "pad_entry"
    /\ metadata' = data_offset(w, T)
    /\ pc' = "offset_done"
    /\ UNCHANGED <<params, size_hint, align, len, cap, alloc, block_size, heap,
                   item, produced, calls, oob, handle>>

PadNext ==
    \/ CallPaddingNeeded
    \/ CallDataOffset

SpecPad == PadInit /\ [][PadNext]_vars

\* ------------------------------------------------------------- the handle's view
\* offset of the handle's payload inside the block: Rc / Arc find the counters at
\* ptr - data_offset
PayloadOffset == handle.ptr - alloc

\* &*rc for Rc<[T]> / Arc<[T]>: element i is read from its size bytes
SliceOf ==
    [i \in 1 .. handle.count |-> FromBytes(heap, PayloadOffset + (i - 1) * size, size)]

\* s.as_bytes() for Rc<str> / Arc<str>
StrBytesOf == [i \in 1 .. handle.count |-> Cell(heap, PayloadOffset + i - 1)]

\* Rc::strong_count / Arc::strong_count: the first counter
strong_count == FromBytes(heap, PayloadOffset - data_offset(w, T), w)

\* the second counter as stored
StoredWeak == FromBytes(heap, PayloadOffset - data_offset(w, T) + w, w)

\* Rc::weak_count / Arc::weak_count: the stored counter less the implicit one
weak_count == StoredWeak - 1

\* ------------------------------------------------------------- reference values
RECURSIVE Utf8Of(_)
\* the UTF-8 encoding of a sequence of scalar values, as a sequence of bytes
Utf8Of(cs) ==
    IF cs = <<>> THEN <<>>
    ELSE LET e == encode_utf8(Head(cs))
         IN  [i \in 1 .. len_utf8(Head(cs)) |-> e[i - 1]] \o Utf8Of(Tail(cs))

RECURSIVE Utf8Decode(_)
\* the scalar values a well-formed UTF-8 byte sequence spells (<<Corrupt>> if ill-formed)
Utf8Decode(bs) ==
    IF bs = <<>> THEN <<>>
    ELSE LET b == bs[1]
             n == IF b >= 0 /\ b < 128 THEN 1
                  ELSE IF b >= 192 /\ b < 224 THEN 2
                  ELSE IF b >= 224 /\ b < 240 THEN 3
                  ELSE IF b >= 240 /\ b < 248 THEN 4
                  ELSE 0
             Cont(k) == bs[k] >= 128 /\ bs[k] < 192
         IN  IF n = 0 \/ Len(bs) < n \/ \E k \in 2 .. n : ~Cont(k) THEN <<Corrupt>>
             ELSE LET c == IF n = 1 THEN b
                           ELSE IF n = 2 THEN (b - 192) * 64 + (bs[2] - 128)
                           ELSE IF n = 3 THEN (b - 224) * 4096 + (bs[2] - 128) * 64
                                              + (bs[3] - 128)
                           ELSE (b - 240) * 262144 + (bs[2] - 128) * 4096
                                + (bs[3] - 128) * 64 + (bs[4] - 128)
                  IN  <<c>> \o Utf8Decode(SubSeq(bs, n + 1, Len(bs)))

RECURSIVE SumWidths(_)
SumWidths(cs) == IF cs = <<>> THEN 0 ELSE len_utf8(Head(cs)) + SumWidths(Tail(cs))

RECURSIVE TotalWidth(_, _, _)
\* the payload bytes the items take
TotalWidth(v, t, xs) ==
    IF xs = <<>> THEN 0 ELSE WidthOf(v, t, Head(xs)) + TotalWidth(v, t, Tail(xs))

RECURSIVE AppendAll(_, _, _, _, _, _)
\* the loop body run for each of xs in turn on a block of blk bytes that never
\* needs to grow (len + width <= cap at every item)
AppendAll(m, l, blk, v, t, xs) ==
    IF xs = <<>> THEN m
    ELSE AppendAll(Store(m, l, BytesOf(v, t, Head(xs)), blk, TRUE),
                   l + WidthOf(v, t, Head(xs)), blk, v, t, Tail(xs))

\* the block the same function leaves for the items xs when the iterator reports
\* the exact bound (n, Some(n)) (n items; for text n bytes): one alloc, no growth
ExactImage(v, wd, t, xs) ==
    LET md == data_offset(wd, t)
        n == IF IsText(v) THEN TotalWidth(v, t, xs) ELSE Len(xs)
        c == InitialCap(v, <<n, Some(n)>>, t, md)
        blk == PadToAlign(c, HeaderAlign(wd))
    IN  AppendAll(Store([i \in 0 .. blk - 1 |-> Indet], 0, InitImage(wd, md), blk, TRUE),
                  md, blk, v, t, xs)

\* the allocator calls that grew or trimmed the block
Reallocs == {i \in DOMAIN calls : calls[i].fn = "realloc"}

\* ------------------------------------------------------------- claims
\* C1: collect_into_rc_slice and collect_into_arc_slice return, for every item
\* sequence, element type and hint, a handle whose slice has as many elements as
\* the iterator produced, the i-th equal to the i-th item produced; in particular
\* the call returns and does not panic.
C1_SliceEqualsProduced ==
    ~IsText(variant) =>
        /\ pc # "panic"
        /\ pc = "done" => /\ handle.count = Len(produced)
                          /\ SliceOf = produced

\* C2: the text handle's bytes are the concatenation, in order, of the UTF-8
\* encodings of the scalars produced (they decode back to exactly that sequence),
\* and its byte length is the sum of the encoded widths.
C2_StrIsUtf8OfProduced ==
    (IsText(variant) /\ pc = "done") =>
        /\ handle.count = SumWidths(produced)
        /\ StrBytesOf = Utf8Of(produced)
        /\ Utf8Decode(StrBytesOf) = produced

\* a text handle built by reference from scalars of all four widths, after a growth
C2_Witness ==
    /\ pc = "done" /\ variant = "rc_str" /\ by = "ref"
    /\ {len_utf8(produced[i]) : i \in DOMAIN produced} = {1, 2, 3, 4}
    /\ Cardinality(Reallocs) >= 2

\* C3: when the handle is reconstructed the stored header holds strong = 1 and
\* weak = 1, so strong_count reports 1 and weak_count reports 0, whatever the
\* input and however many reallocations happened.
C3_CountsAfterConstruction ==
    pc = "done" => /\ strong_count = 1
                   /\ StoredWeak = 1
                   /\ weak_count = 0

\* an Arc<[T]> reconstructed after the block was grown twice and trimmed
C3_Witness ==
    /\ pc = "done" /\ variant = "arc_slice"
    /\ Cardinality(Reallocs) >= 3
    /\ \E i \in Reallocs : calls[i].new_size < calls[i].old_size

\* C4: len <= cap in every state of a construction, and after the growth step for
\* an append of k bytes cap >= len + k: no append writes at or beyond offset cap,
\* nor outside the block.
C4_LenWithinCap ==
    /\ len <= cap
    /\ pc = "write" => len + Width <= cap
    /\ ~oob

\* C5: the length hint is advisory: whatever bounds the iterator reports, the
\* handle has the contents and the length that the same items give under the
\* exact hint (n, Some(n)); so any two hints give identical handles.
C5_HintIndependent ==
    (pc = "done" /\ size > 0) =>
        LET ex == ExactImage(variant, w, T, produced)
            md == data_offset(w, T)
            n  == TotalWidth(variant, T, produced) \div size
        IN  /\ handle.count = n
            /\ \A i \in 0 .. n - 1 :
                  FromBytes(heap, PayloadOffset + i * size, size)
                      = FromBytes(ex, md + i * size, size)

\* C6: for an empty sequence, with any hint and any element type, construction
\* returns (no panic) a handle with zero elements backed by a non-null block of
\* at least payload_offset bytes.
C6_EmptySequence ==
    produced = <<>> =>
        /\ pc # "panic"
        /\ pc = "done" => /\ handle.count = 0
                          /\ alloc # Null
                          /\ block_size >= data_offset(w, T)

\* C7: when the handle is reconstructed the block holds exactly len rounded up to
\* the allocation alignment, also when the last growth left cap = len and no trim
\* was performed (stated for the runs in which every write stayed inside the block).
C7_BlockIsLenPadded ==
    (pc = "done" /\ ~oob) => block_size = len + padding_needed(len, align)

\* C8: for every element type of the array front ends the allocation alignment
\* (the header's) is at least the element's, so the payload start address is a
\* multiple of the element alignment for every address the allocator returns.
C8_PayloadAligned ==
    (~IsText(variant) /\ pc \notin {"entry", "abort"}) =>
        /\ align >= T[2]
        /\ (alloc + metadata) % T[2] = 0

\* C9: a growth reallocation, in place or moving, leaves the header and every
\* byte appended so far unchanged at the same offset from the base address.
C9_GrowthPreservesWritten ==
    [][(pc = "check" /\ pc' = "write" /\ cap' # cap) =>
          \A i \in 0 .. len - 1 : Cell(heap', i) = Cell(heap, i)]_vars

\* C10: every alloc and realloc of a construction, and the deallocation later
\* performed through the handle, use one alignment, the header's natural one.
C10_OneAlignment ==
    \A i \in DOMAIN calls : calls[i].align = HeaderAlign(w)

\* the smallest p >= 0 with (l + p) % a = 0
C11_SmallestPad(l, a) ==
    CHOOSE p \in 0 .. a - 1 :
        /\ (l + p) % a = 0
        /\ \A q \in 0 .. p - 1 : (l + q) % a # 0

\* C11: for every len and every power-of-two align, padding_needed(len, align) is
\* the smallest p >= 0 with (len + p) % align = 0, hence 0 <= p < align; and
\* data_offset is the header size plus that padding for the element alignment.
C11_PaddingIsSmallest ==
    /\ pc = "pad_done" => /\ cap >= 0 /\ cap < align
                          /\ cap = C11_SmallestPad(len, align)
    /\ pc = "offset_done" =>
          metadata = HeaderSize(w) + C11_SmallestPad(HeaderSize(w), T[2])

\* padding computed for a len so large that len + align - 1 wraps around
C11_Witness ==
    /\ pc = "pad_done"
    /\ len + align - 1 >= WordModulus
    /\ cap > 0

\* the construction has ended: fatal allocation failure, panic, unwinding, or a
\* returned handle (possibly dropped since)
Terminated == {"abort", "panic", "unwound", "done", "dropped"}

\* C12 as stated: a construction that has ended (other than by a panic of the
\* iterator itself) has seen its input signal completion, i.e. while the input
\* does not signal completion the construction does not terminate.
C12_EndsOnlyAfterCompletion ==
    (pc \in Terminated \ {"unwound"} /\ Len(produced) > 0) => item = EndOfIteration

\* C12, amended: for every finite input the construction terminates, however far
\* the hint underestimates; and a handle is returned only after the input has
\* signalled completion (the loop is left otherwise only by the fatal
\* allocation-failure path or by a panic, never with a handle).
C12_TerminatesAndReturnsOnlyAfterCompletion ==
    /\ <>(pc \in Terminated)
    /\ [](handle # <<>> => item = EndOfIteration)

\* a handle returned for MaxItems items after a hint of (0, Some(0)) and at least
\* two growth steps
C12_Witness ==
    /\ pc = "done"
    /\ size_hint = <<0, Some(0)>>
    /\ Len(produced) = MaxItems
    /\ Cardinality({i \in DOMAIN calls : calls[i].fn = "realloc"
                                         /\ calls[i].new_size > calls[i].old_size}) >= 2

\* no deallocation of the block has been requested
BlockLive == alloc # Null /\ \A i \in DOMAIN calls : calls[i].fn # "dealloc"

\* C13: when the iterator panics after k items, the allocation built so far has
\* been freed by the time the failure propagates: no allocation stays live.
C13_FreedOnIteratorPanic == pc = "unwound" => ~BlockLive

\* C14: the block grows only when the next write would exceed cap, and then cap
\* is exactly doubled by one realloc; an append with len + width <= cap performs
\* no realloc and leaves the address, cap and every byte outside
\* [len, len + width) unchanged.
C14_GrowthOnlyWhenNeeded ==
    [][/\ (pc = "check" /\ len + Width > cap) =>
             /\ cap' = 2 * cap
             /\ Len(calls') = Len(calls) + 1
             /\ calls'[Len(calls')].fn = "realloc"
             /\ calls'[Len(calls')].new_size = 2 * cap
       /\ (pc = "check" /\ len + Width <= cap) =>
             /\ pc' = "write"
             /\ calls' = calls /\ alloc' = alloc /\ cap' = cap /\ heap' = heap
       /\ (pc = "write" /\ len + Width <= cap) =>
             /\ calls' = calls /\ alloc' = alloc /\ cap' = cap
             /\ \A i \in (0 .. Max(Top(heap), Top(heap'))) \ (len .. len + Width - 1) :
                    Cell(heap', i) = Cell(heap, i)
       /\ pc \in {"loop", "write"} => (calls' = calls /\ cap' = cap)]_vars

\* one growth step, followed by an append that fitted without growth
C14_Witness ==
    /\ pc = "loop"
    /\ Len(produced) >= 2
    /\ Cardinality({i \in DOMAIN calls : calls[i].fn = "realloc"}) = 1
    /\ len <= cap

\* C15: header authoring copies exactly header_layout.size() bytes, for every
\* element alignment: it never reads past the two-counter header value and never
\* writes the padding between the header and the payload.
C15_CopiesExactlyHeader == pc = "header" => CopyCount = HeaderSize(w)

\* C16: for every reported hint the initial cap equals payload_offset + hint *
\* element_size (text: payload_offset + hint), hint being the upper bound when
\* one is reported and the lower bound otherwise, and the opening allocation is
\* at least payload_offset bytes, also when that sum leaves the word range.
C16_OpeningCoversHeader ==
    pc = "header" =>
        /\ cap = InitialCap(variant, size_hint, T, metadata)
        /\ cap >= metadata
        /\ block_size >= metadata

\* C17: in the text front ends capacity is checked against the scalar's encoded
\* width and any growth is over before its first byte is written: every append
\* writes the full encoding into [old len, old len + width) with
\* old len + width <= cap, never past the allocated capacity, and no realloc
\* happens between the bytes of one scalar.
C17_TextGrowthBeforeWrite ==
    [][/\ (IsText(variant) /\ pc = "check") =>
             (calls' # calls <=> len + len_utf8(item) > cap)
       /\ (IsText(variant) /\ pc = "write") =>
             /\ len + len_utf8(item) <= cap
             /\ len + len_utf8(item) <= block_size
             /\ len' = len + len_utf8(item)
             /\ \A k \in 0 .. len_utf8(item) - 1 :
                    Cell(heap', len + k) = encode_utf8(item)[k]
             /\ calls' = calls /\ alloc' = alloc]_vars

\* C18: every realloc, growth or trim, passes as the old layout the size with
\* which the block was most recently allocated or reallocated: pad_to_align of
\* the current cap equals the size requested by the previous alloc / realloc,
\* also when cap is not a multiple of the alignment.
C18_OldLayoutIsLastRequest ==
    \A i \in Reallocs : calls[i].old_size = calls[i - 1].new_size

\* C19: the element count handed to the array handle, (len - payload_offset) /
\* element_size, is defined and equals the number of items produced, for every
\* element size, zero included.
C19_CountDefined ==
    ~IsText(variant) =>
        /\ (pc = "panic" /\ item = EndOfIteration) => size # 0
        /\ pc = "done" => handle.count = Len(produced)

====
